---- MODULE Spec2Model ----
(***************************************************************************)
(* A model of the GAN training pipeline of train.py / gan.py:              *)
(*   - get_normal_shaped_array / get_normal_shaped_arrays (the shaper),    *)
(*   - get_discriminator_train_set / discriminator_train_test_set          *)
(*     (the dataset assembler and the train/test split),                   *)
(*   - the top-level training script of train.py.                          *)
(*                                                                         *)
(* Numbers.  A float is modelled as an exact fraction [num, den] with      *)
(* den > 0; [0,0] is NaN and [+-1,0] is +-Inf, the values numpy produces   *)
(* for 0/0 and x/0 (it warns and does not raise).  Rounding is not         *)
(* modelled.                                                               *)
(*                                                                         *)
(* Arrays.  A numpy array is [shape, data]: for shape <<L>> data is a      *)
(* sequence of L numbers, for shape <<R, L>> a sequence of R rows of L     *)
(* numbers each.                                                           *)
(***************************************************************************)
EXTENDS Integers, Sequences, FiniteSets, TLC

VARIABLES
    pc,                  \* position of the operation / of the script
    raised,              \* the exception that ended the operation, or "none"
    normal,              \* np.random.normal(size=shape): the noise draw
    normal_shaped,       \* value returned by get_normal_shaped_array
    normal_shaped_data,  \* argument of the dataset functions
    mnist_data,          \* argument of the dataset functions
    train_test_split,    \* argument of discriminator_train_test_set
    X, y,                \* the interleaved examples and labels
    X_train, y_train, X_test, y_test,   \* the split returned
    events,              \* calls the script has made on the models, in order
    trainable,           \* flag last passed to gan.set_discriminator_trainability
                         \* (TRUE: trainable, FALSE: frozen), "unset" before
    loop_n               \* rows still to generate in get_normal_shaped_arrays

vars == <<pc, raised, normal, normal_shaped, normal_shaped_data, mnist_data,
          train_test_split, X, y, X_train, y_train, X_test, y_test,
          events, trainable, loop_n>>

(***************************** bounds **************************************)
MaxLen == 4
MaxSize == 5
MaxSamples == 3
SplitDen == 4
ImgLen == 3
LatentLen == 2
NArrays == 2

\* Noise values, in an arbitrary unit (the shaper is scale invariant).
NoiseVals == {-10000, -9999, 0, 9990, 10000}

(***************************** numbers *************************************)
Num(n) == [num |-> n, den |-> 1]
NaN == [num |-> 0, den |-> 0]
Sign(n) == IF n > 0 THEN 1 ELSE IF n < 0 THEN -1 ELSE 0
Abs(n) == IF n < 0 THEN -n ELSE n

\* 1e-4 and 0.999, the two literals of the clamp
LowNum == 1
LowDen == 10000
HighNum == 999
HighDen == 1000
Low == [num |-> LowNum, den |-> LowDen]
High == [num |-> HighNum, den |-> HighDen]

\* a < b, a <= b, a = b as IEEE comparisons: false when either side is NaN
Lt(a, b) ==
    IF a = NaN \/ b = NaN THEN FALSE
    ELSE IF a.den = 0 \/ b.den = 0
         THEN (IF a.den = 0 THEN a.num ELSE 0) < (IF b.den = 0 THEN b.num ELSE 0)
    ELSE a.num * b.den < b.num * a.den
Eq(a, b) ==
    IF a = NaN \/ b = NaN THEN FALSE
    ELSE IF a.den = 0 \/ b.den = 0 THEN a = b
    ELSE a.num * b.den = b.num * a.den
Le(a, b) == Lt(a, b) \/ Eq(a, b)

\* a - b and a / b
Sub(a, b) ==
    IF a.den = 0 \/ b.den = 0
    THEN (IF a.den = 0 /\ b.den = 0
          THEN (IF a.num # 0 /\ b.num = -a.num THEN a ELSE NaN)
          ELSE IF a.den = 0 THEN a
          ELSE IF b = NaN THEN NaN ELSE [num |-> -b.num, den |-> 0])
    ELSE [num |-> a.num * b.den - b.num * a.den, den |-> a.den * b.den]
Div(a, b) ==
    IF a = NaN \/ b = NaN THEN NaN
    ELSE IF b.den = 0 THEN (IF a.den = 0 THEN NaN ELSE Num(0))
    ELSE IF a.den = 0 THEN [num |-> a.num * (IF b.num < 0 THEN -1 ELSE 1), den |-> 0]
    ELSE IF b.num = 0 THEN [num |-> Sign(a.num), den |-> 0]
    ELSE [num |-> a.num * b.den * Sign(b.num), den |-> a.den * Abs(b.num)]

(***************************** arrays **************************************)
Rows(shape) == IF Len(shape) = 1 THEN 1 ELSE shape[1]
Cols(shape) == shape[Len(shape)]

\* every element of the array, row by row
RECURSIVE Concat(_)
Concat(rows) == IF rows = <<>> THEN <<>> ELSE Head(rows) \o Concat(Tail(rows))
Flat(a) == IF Len(a.shape) = 1 THEN a.data ELSE Concat(a.data)

\* a - m and a / m for an array a and a scalar m (the scalar is broadcast)
SubArr(a, m) ==
    IF Len(a.shape) = 1
    THEN [a EXCEPT !.data = [i \in 1..Len(a.data) |-> Sub(a.data[i], m)]]
    ELSE [a EXCEPT !.data = [r \in 1..Len(a.data) |->
                                [i \in 1..Len(a.data[r]) |-> Sub(a.data[r][i], m)]]]
DivArr(a, m) ==
    IF Len(a.shape) = 1
    THEN [a EXCEPT !.data = [i \in 1..Len(a.data) |-> Div(a.data[i], m)]]
    ELSE [a EXCEPT !.data = [r \in 1..Len(a.data) |->
                                [i \in 1..Len(a.data[r]) |-> Div(a.data[r][i], m)]]]

\* a sequence of finite numbers in non-decreasing order
RECURSIVE Insert(_, _)
Insert(v, s) ==
    IF s = <<>> THEN <<v>>
    ELSE IF Le(v, Head(s)) THEN <<v>> \o s
    ELSE <<Head(s)>> \o Insert(v, Tail(s))
RECURSIVE SortAsc(_)
SortAsc(s) == IF s = <<>> THEN <<>> ELSE Insert(Head(s), SortAsc(Tail(s)))

\* np.sort(a, axis=0): the first axis is sorted; for a 2-D array that is each
\* column across the rows
SortAxis0(a) ==
    IF Len(a.shape) = 1
    THEN [a EXCEPT !.data = SortAsc(a.data)]
    ELSE LET R == a.shape[1]
             C == a.shape[2]
             col(j) == SortAsc([r \in 1..R |-> a.data[r][j]])
         IN [a EXCEPT !.data = [r \in 1..R |-> [j \in 1..C |-> col(j)[r]]]]

RECURSIVE MinOf(_)
MinOf(s) ==
    IF Len(s) = 1 THEN s[1]
    ELSE LET m == MinOf(Tail(s)) IN IF Lt(s[1], m) THEN s[1] ELSE m
RECURSIVE MaxOf(_)
MaxOf(s) ==
    IF Len(s) = 1 THEN s[1]
    ELSE LET m == MaxOf(Tail(s)) IN IF Lt(m, s[1]) THEN s[1] ELSE m
\* np.amin(a), np.amax(a): over all elements
Amin(a) == MinOf(Flat(a))
Amax(a) == MaxOf(Flat(a))

\* len(a): the size of the first axis
PyLen(a) == a.shape[1]

\* a[i] = v with i a 0-based index on the first axis: one element of a 1-D
\* array, one whole row of a 2-D array (the scalar is broadcast over the row)
SetItemFlat(a, i, v) ==
    IF Len(a.shape) = 1
    THEN [a EXCEPT !.data[i + 1] = v]
    ELSE [a EXCEPT !.data[1][i + 1] = v]
SetItem(a, i, v) ==
    IF Len(a.shape) = 1
    THEN [a EXCEPT !.data[i + 1] = v]
    ELSE [a EXCEPT !.data[i + 1] = [j \in 1..a.shape[2] |-> v]]

(***************************** the shaper **********************************)
\* lines 39-56 of get_normal_shaped_array, applied to the noise drawn at 36
GetNormalShapedArray(noise) ==
    LET sorted == SortAxis0(noise)
        min == Amin(sorted)
        new_normal == SubArr(sorted, min)
        new_normal_max == Amax(new_normal)
        normal_scaled == DivArr(new_normal, new_normal_max)
        first == SetItem(normal_scaled, 0, Low)
    IN SetItem(first, PyLen(first) - 1, High)

\* the shapes a caller may request and the draws of each
Shapes ==
    {<<L>> : L \in 1..MaxLen}
    \cup {<<R, L>> : R \in 1..MaxSize, L \in 1..MaxLen}

Draws(shape) ==
    IF Len(shape) = 1
    THEN {[shape |-> shape, data |-> d] :
             d \in [1..shape[1] -> {Num(v) : v \in NoiseVals}]}
    ELSE {[shape |-> shape, data |-> d] :
             d \in [1..shape[1] -> [1..shape[2] -> {Num(v) : v \in NoiseVals}]]}

None == [shape |-> <<0>>, data |-> <<>>]

Idle ==
    /\ normal_shaped_data = <<>> /\ mnist_data = <<>>
    /\ train_test_split = Num(0)
    /\ X = <<>> /\ y = <<>>
    /\ X_train = <<>> /\ y_train = <<>> /\ X_test = <<>> /\ y_test = <<>>
    /\ events = <<>> /\ trainable = "unset" /\ loop_n = 0

InitShape ==
    /\ pc = "call"
    /\ raised = "none"
    /\ \E shape \in {s \in Shapes : Rows(s) * Cols(s) <= MaxSize} :
          normal \in Draws(shape)
    /\ normal_shaped = None
    /\ Idle

GetNormalShapedArrayCall ==
    /\ pc = "call"
    /\ normal_shaped' = GetNormalShapedArray(normal)
    /\ pc' = "done"
    /\ UNCHANGED <<raised, normal, normal_shaped_data, mnist_data,
                   train_test_split, X, y, X_train, y_train, X_test, y_test,
                   events, trainable, loop_n>>

NextShape == GetNormalShapedArrayCall
SpecShape == InitShape /\ [][NextShape]_vars


(***************************** the dataset *********************************)
\* Samples are opaque values; the assembler never looks inside one.
SampleVals == {"p", "q"}
SeqsUpTo(S, n) == UNION {[1..k -> S] : k \in 0..n}

Fake == <<1, 0>>
Real == <<0, 1>>

\* the loop of get_discriminator_train_set / discriminator_train_test_set:
\* iterations i, i+1, ... (1-based) starting from the lists Xs, ys.  Reading
\* mnist_data[i] past its end raises IndexError after the shaped sample and
\* its label were appended.
RECURSIVE InterleaveLabelsSwapped(_, _, _, _, _)
InterleaveLabelsSwapped(nsd, md, i, Xs, ys) ==
    IF i > Len(nsd) THEN [X |-> Xs, y |-> ys, raised |-> "none"]
    ELSE IF i > Len(md)
         THEN [X |-> Append(Xs, nsd[i]), y |-> Append(ys, Real),
               raised |-> "IndexError"]
    ELSE InterleaveLabelsSwapped(nsd, md, i + 1,
                    Append(Append(Xs, nsd[i]), md[i]),
                    Append(Append(ys, Real), Fake))
RECURSIVE Interleave(_, _, _, _, _)
Interleave(nsd, md, i, Xs, ys) ==
    IF i > Len(nsd) THEN [X |-> Xs, y |-> ys, raised |-> "none"]
    ELSE IF i > Len(md)
         THEN [X |-> Append(Xs, nsd[i]), y |-> Append(ys, Fake),
               raised |-> "IndexError"]
    ELSE Interleave(nsd, md, i + 1,
                    Append(Append(Xs, nsd[i]), md[i]),
                    Append(Append(ys, Fake), Real))

\* int(n * f) for an int n and a float f: truncation toward zero
IntOfProduct(n, f) ==
    LET p == n * f.num
    IN IF p >= 0 THEN p \div f.den ELSE -((-p) \div f.den)

\* s[:stop] and s[start:] for a list s and ints stop, start (negative indices
\* count from the end, out-of-range ones are clipped)
ClipIndex(s, i) ==
    IF i < 0 THEN (IF i + Len(s) < 0 THEN 0 ELSE i + Len(s))
    ELSE IF i > Len(s) THEN Len(s) ELSE i
SliceTo(s, stop) == SubSeq(s, 1, ClipIndex(s, stop))
SliceFrom(s, start) == SubSeq(s, ClipIndex(s, start) + 1, Len(s))

\* lines 103-109: the split of the lists Xs, ys
TrainTestSplit(Xs, ys, f) ==
    LET split == IntOfProduct(Len(Xs), f)
    IN [X_train |-> SliceTo(Xs, -split), y_train |-> SliceTo(ys, -split),
        X_test |-> SliceFrom(Xs, -split), y_test |-> SliceFrom(ys, -split)]

\* the split fractions a caller may pass: k / SplitDen, from -1 to 2
Fractions == {[num |-> k, den |-> SplitDen] : k \in (-SplitDen)..(2 * SplitDen)}

InitDataset ==
    /\ pc = "call"
    /\ raised = "none"
    /\ normal = None /\ normal_shaped = None
    /\ normal_shaped_data \in SeqsUpTo(SampleVals, MaxSamples)
    /\ mnist_data \in SeqsUpTo(SampleVals, MaxSamples)
    /\ train_test_split \in Fractions
    /\ X = <<>> /\ y = <<>>
    /\ X_train = <<>> /\ y_train = <<>> /\ X_test = <<>> /\ y_test = <<>>
    /\ events = <<>> /\ trainable = "unset" /\ loop_n = 0

\* gan.py: get_discriminator_train_set(normal_shaped_data, mnist_data)
GetDiscriminatorTrainSet ==
    /\ pc = "call"
    /\ LET r == Interleave(normal_shaped_data, mnist_data, 1, <<>>, <<>>)
       IN /\ X' = r.X
          /\ y' = r.y
          /\ raised' = r.raised
    /\ pc' = "train_set_done"
    /\ UNCHANGED <<normal, normal_shaped, normal_shaped_data, mnist_data,
                   train_test_split, X_train, y_train, X_test, y_test,
                   events, trainable, loop_n>>

\* train.py: discriminator_train_test_set(normal_shaped_data, mnist_data,
\* train_test_split)
DiscriminatorTrainTestSet ==
    /\ pc = "call"
    /\ LET r == Interleave(normal_shaped_data, mnist_data, 1, <<>>, <<>>)
           s == TrainTestSplit(r.X, r.y, train_test_split)
       IN /\ X' = r.X
          /\ y' = r.y
          /\ raised' = r.raised
          /\ IF r.raised = "none"
             THEN /\ X_train' = s.X_train
                  /\ y_train' = s.y_train
                  /\ X_test' = s.X_test
                  /\ y_test' = s.y_test
             ELSE UNCHANGED <<X_train, y_train, X_test, y_test>>
    /\ pc' = "train_test_set_done"
    /\ UNCHANGED <<normal, normal_shaped, normal_shaped_data, mnist_data,
                   train_test_split, events, trainable, loop_n>>

NextDataset == GetDiscriminatorTrainSet \/ DiscriminatorTrainTestSet
SpecDataset == InitDataset /\ [][NextDataset]_vars


(***************************** the script **********************************)
\* np.array(arrays).reshape(n_arrays, shape[1]): n_arrays rows of shape[1]
\* values; ValueError when the element count differs
Reshape(arrays, n_arrays, width) ==
    IF \A i \in 1..Len(arrays) : Len(Flat(arrays[i])) = width
    THEN [raised |-> "none", rows |-> [i \in 1..n_arrays |-> Flat(arrays[i])]]
    ELSE [raised |-> "ValueError", rows |-> <<>>]

\* the shapes the script asks for: (1, 784) and (1, 16), scaled to the bounds
ImgShape == <<1, ImgLen>>
LatentShape == <<1, LatentLen>>

\* one call the script makes on the models, with the trainability last set
\* through the composer when the call is made
Event(name, arg) == [call |-> name, arg |-> arg, trainable |-> trainable]

\* lines 20-23: the dataset provider's X_train (here mnist_data) is loaded;
\* params.DISCRIMINATOR_TRAIN_TEST_SPLIT is read at line 126
InitTrain ==
    /\ pc = "line124"
    /\ raised = "none"
    /\ normal = None
    /\ normal_shaped = <<>>
    /\ normal_shaped_data = <<>>
    /\ mnist_data \in SeqsUpTo(SampleVals, MaxSamples)
    /\ train_test_split \in Fractions
    /\ X = <<>> /\ y = <<>>
    /\ X_train = <<>> /\ y_train = <<>> /\ X_test = <<>> /\ y_test = <<>>
    /\ events = <<>>
    /\ trainable = "unset"
    /\ loop_n = NArrays

\* one iteration of the loop of get_normal_shaped_arrays (lines 72-73); in
\* this specification normal_shaped is the list that loop builds
ShapeIteration(shape) ==
    /\ loop_n > 0
    /\ \E noise \in Draws(shape) :
          normal_shaped' = Append(normal_shaped, GetNormalShapedArray(noise))
    /\ loop_n' = loop_n - 1

\* line 124: X = get_normal_shaped_arrays(60000, (1, 784))
Line124Iterate ==
    /\ pc = "line124"
    /\ ShapeIteration(ImgShape)
    /\ UNCHANGED <<pc, raised, normal, normal_shaped_data, mnist_data,
                   train_test_split, X, y, X_train, y_train, X_test, y_test,
                   events, trainable>>

Line124Return ==
    /\ pc = "line124"
    /\ loop_n = 0
    /\ LET r == Reshape(normal_shaped, NArrays, ImgShape[2])
       IN /\ raised' = r.raised
          /\ normal_shaped_data' = r.rows
          /\ pc' = IF r.raised = "none" THEN "line126" ELSE "aborted"
    /\ normal_shaped' = <<>>
    /\ UNCHANGED <<normal, mnist_data, train_test_split, X, y,
                   X_train, y_train, X_test, y_test, events, trainable, loop_n>>

\* line 126: X_train, y_train, X_test, y_test =
\*     discriminator_train_test_set(X, X_train, params....SPLIT)
Line126 ==
    /\ pc = "line126"
    /\ LET r == Interleave(normal_shaped_data, mnist_data, 1, <<>>, <<>>)
           s == TrainTestSplit(r.X, r.y, train_test_split)
       IN /\ X' = r.X
          /\ y' = r.y
          /\ raised' = r.raised
          /\ IF r.raised = "none"
             THEN /\ X_train' = s.X_train
                  /\ y_train' = s.y_train
                  /\ X_test' = s.X_test
                  /\ y_test' = s.y_test
                  /\ pc' = "line129"
             ELSE /\ UNCHANGED <<X_train, y_train, X_test, y_test>>
                  /\ pc' = "aborted"
    /\ UNCHANGED <<normal, normal_shaped, normal_shaped_data, mnist_data,
                   train_test_split, events, trainable, loop_n>>

\* a call on a model at position `at`: the call is made (and recorded), then
\* it returns and the script goes on to `next`, or it raises and the script
\* ends
ModelCall(at, name, arg, next) ==
    /\ pc = at
    /\ events' = Append(events, Event(name, arg))
    /\ \/ pc' = next /\ UNCHANGED raised
       \/ pc' = "aborted" /\ raised' = "Exception"

\* lines 128-129: discriminator = Discriminator(...); discriminator.train(...)
Line129 ==
    /\ ModelCall("line129", "discriminator.train", "", "line130")
    /\ UNCHANGED <<normal, normal_shaped, normal_shaped_data, mnist_data,
                   train_test_split, X, y, X_train, y_train, X_test, y_test,
                   trainable, loop_n>>

\* line 130: print(discriminator.eval(X_test, y_test))
Line130 ==
    /\ ModelCall("line130", "discriminator.eval", "", "line135")
    /\ UNCHANGED <<normal, normal_shaped, normal_shaped_data, mnist_data,
                   train_test_split, X, y, X_train, y_train, X_test, y_test,
                   trainable, loop_n>>

\* lines 132-135: generator = Generator(); gan = Gan(generator,
\* discriminator); gan.set_discriminator_trainability(False)
Line135Unfrozen ==
    /\ ModelCall("line135", "set_discriminator_trainability", TRUE, "line136")
    /\ trainable' = TRUE
    /\ UNCHANGED <<normal, normal_shaped, normal_shaped_data, mnist_data,
                   train_test_split, X, y, X_train, y_train, X_test, y_test,
                   loop_n>>
Line135 ==
    /\ ModelCall("line135", "set_discriminator_trainability", FALSE, "line136")
    /\ trainable' = FALSE
    /\ UNCHANGED <<normal, normal_shaped, normal_shaped_data, mnist_data,
                   train_test_split, X, y, X_train, y_train, X_test, y_test,
                   loop_n>>

\* line 136: gan.show_trainable()
Line136 ==
    /\ ModelCall("line136", "show_trainable", "", "line138")
    /\ loop_n' = IF pc' = "line138" THEN NArrays ELSE loop_n
    /\ UNCHANGED <<normal, normal_shaped, normal_shaped_data, mnist_data,
                   train_test_split, X, y, X_train, y_train, X_test, y_test,
                   trainable>>

\* line 138: X = get_normal_shaped_arrays(100000, (1, 16))
Line138Iterate ==
    /\ pc = "line138"
    /\ ShapeIteration(LatentShape)
    /\ UNCHANGED <<pc, raised, normal, normal_shaped_data, mnist_data,
                   train_test_split, X, y, X_train, y_train, X_test, y_test,
                   events, trainable>>

\* lines 138-143: the call returns into X; y is one [0, 1] per row
Line138Return ==
    /\ pc = "line138"
    /\ loop_n = 0
    /\ LET r == Reshape(normal_shaped, NArrays, LatentShape[2])
       IN /\ raised' = r.raised
          /\ X' = r.rows
          /\ y' = [i \in 1..NArrays |-> Real]
          /\ pc' = IF r.raised = "none" THEN "line145" ELSE "aborted"
    /\ normal_shaped' = <<>>
    /\ UNCHANGED <<normal, normal_shaped_data, mnist_data, train_test_split,
                   X_train, y_train, X_test, y_test, events, trainable, loop_n>>

\* line 145: generator = gan.train_generator(X, y)
Line145 ==
    /\ ModelCall("line145", "train_generator", "", "line147")
    /\ UNCHANGED <<normal, normal_shaped, normal_shaped_data, mnist_data,
                   train_test_split, X, y, X_train, y_train, X_test, y_test,
                   trainable, loop_n>>

\* lines 147-156: summary, three predictions, three plots
Line147 ==
    /\ ModelCall("line147", "generator.predict", "", "done")
    /\ UNCHANGED <<normal, normal_shaped, normal_shaped_data, mnist_data,
                   train_test_split, X, y, X_train, y_train, X_test, y_test,
                   trainable, loop_n>>

NextTrain ==
    \/ Line124Iterate \/ Line124Return \/ Line126 \/ Line129 \/ Line130
    \/ Line135 \/ Line136 \/ Line138Iterate \/ Line138Return \/ Line145
    \/ Line147
SpecTrain == InitTrain /\ [][NextTrain]_vars


(***************************** properties **********************************)
\* the call of get_normal_shaped_array has returned
Returned == pc = "done"
\* the draw is one sample of L values: shape (L,) or (1, L)
IsVector == Len(normal.shape) = 1
IsRow == Len(normal.shape) = 2 /\ normal.shape[1] = 1
DrawLen == Cols(normal.shape)
\* every value of the draw is the same
Degenerate == \A i, j \in 1..Len(Flat(normal)) : Flat(normal)[i] = Flat(normal)[j]
\* no two values of the draw are the same
Distinct ==
    \A i, j \in 1..Len(Flat(normal)) :
        i # j => Flat(normal)[i] # Flat(normal)[j]
Zero == Num(0)
One == Num(1)

\* C3: for a draw of length L >= 2 the returned sample has L values, all in
\* [1e-4, 0.999], the interior ones strictly between 0 and 1, in
\* non-decreasing order.  Stated here for the draws whose values are pairwise
\* distinct, so that a violation rests neither on a tie nor on the all-equal
\* draw of C5.
C3_SampleBoundedMonotone ==
    (Returned /\ (IsVector \/ IsRow) /\ DrawLen >= 2 /\ Distinct) =>
        LET v == Flat(normal_shaped)
        IN /\ Len(v) = DrawLen
           /\ \A i \in 1..Len(v) : Le(Low, v[i]) /\ Le(v[i], High)
           /\ \A i \in 2..(Len(v) - 1) : Lt(Zero, v[i]) /\ Lt(v[i], One)
           /\ \A i \in 1..(Len(v) - 1) : Le(v[i], v[i + 1])

\* C4: with a shape (1, L), L >= 2, the first value of the sample is 1e-4, the
\* last is 0.999, and no other element is overwritten by the clamp.
C4_ClampOnlyEndpoints ==
    (Returned /\ IsRow /\ DrawLen >= 2) =>
        LET v == Flat(normal_shaped)
            s == Flat(SortAxis0(normal))
            range == Sub(MaxOf(s), MinOf(s))
        IN /\ v[1] = Low
           /\ v[DrawLen] = High
           /\ \A i \in 2..(DrawLen - 1) :
                 v[i] = Div(Sub(s[i], MinOf(s)), range)

\* C5: an all-equal draw (of two values or more) makes
\* get_normal_shaped_array signal an error; no sample is returned.
C5_DegenerateSignalled ==
    (Returned /\ (IsVector \/ IsRow) /\ DrawLen >= 2 /\ Degenerate) =>
        raised # "none"

\* C8: with a shape (1, L), L >= 3, and a draw that is not all-equal, every
\* interior value is the rescaled order statistic (s[i]-s[0])/(s[L-1]-s[0]).
C8_InteriorOrderStatistics ==
    (Returned /\ IsRow /\ DrawLen >= 3 /\ ~Degenerate) =>
        LET v == Flat(normal_shaped)
            s == SortAsc(Flat(normal))
        IN \A i \in 2..(DrawLen - 1) :
              Eq(v[i], Div(Sub(s[i], s[1]), Sub(s[DrawLen], s[1])))

Assembled == pc \in {"train_set_done", "train_test_set_done"}
SplitDone == pc = "train_test_set_done"
SameCount == Len(normal_shaped_data) = Len(mnist_data)
\* 0 <= train_test_split < 1
FractionInRange ==
    /\ train_test_split.num >= 0
    /\ train_test_split.num < train_test_split.den

\* C1: with n shaped and n real samples, the interleaving gives 2n examples:
\* (shaped[i], (1,0)) at position 2i and (real[i], (0,1)) at position 2i+1.
C1_Interleaved ==
    (Assembled /\ SameCount) =>
        LET n == Len(normal_shaped_data)
        IN /\ raised = "none"
           /\ Len(X) = 2 * n /\ Len(y) = 2 * n
           /\ \A i \in 1..n :
                 /\ X[2 * i - 1] = normal_shaped_data[i]
                 /\ y[2 * i - 1] = <<1, 0>>
                 /\ X[2 * i] = mnist_data[i]
                 /\ y[2 * i] = <<0, 1>>
C1_Witness ==
    /\ Assembled /\ SameCount /\ Len(normal_shaped_data) >= 2
    /\ normal_shaped_data[1] # normal_shaped_data[2]
    /\ normal_shaped_data[1] # mnist_data[1]

\* C2: for a fraction in [0,1) the test set is the last floor(n*fraction)
\* examples and the train set the first n - floor(n*fraction), in order.
C2_SplitTail ==
    (SplitDone /\ raised = "none" /\ FractionInRange) =>
        LET n == Len(X)
            k == (n * train_test_split.num) \div train_test_split.den
        IN /\ X_test = SubSeq(X, n - k + 1, n)
           /\ y_test = SubSeq(y, n - k + 1, n)
           /\ X_train = SubSeq(X, 1, n - k)
           /\ y_train = SubSeq(y, 1, n - k)

\* C6: with different numbers of shaped and real samples (and one shaped
\* sample at least) the interleaving fails and returns no dataset.
C6_MismatchSignalled ==
    (Assembled /\ ~SameCount /\ Len(normal_shaped_data) >= 1) =>
        raised # "none"

\* C7: with a fraction outside [0,1) discriminator_train_test_set (given one
\* shaped and one real sample at least) fails and returns no train/test sets.
C7_InvalidFractionSignalled ==
    (SplitDone /\ ~FractionInRange /\ Len(normal_shaped_data) >= 1
               /\ Len(mnist_data) >= 1) =>
        raised # "none"

\* C9: the script calls discriminator.train, discriminator.eval,
\* set_discriminator_trainability(False) and train_generator in this order;
\* train_generator is never called while the trainability last set through
\* the composer is not frozen, and discriminator.train is never called after
\* the freeze.
Called(j, name) == events[j].call = name
C9_PhaseOrder ==
    /\ \A j \in 1..Len(events) :
          Called(j, "train_generator") =>
             /\ events[j].trainable = FALSE
             /\ \E a, b, c \in 1..(j - 1) :
                   /\ a < b /\ b < c
                   /\ Called(a, "discriminator.train")
                   /\ Called(b, "discriminator.eval")
                   /\ Called(c, "set_discriminator_trainability")
                   /\ events[c].arg = FALSE
    /\ \A i, j \in 1..Len(events) :
          (i < j /\ Called(i, "set_discriminator_trainability")
                 /\ events[i].arg = FALSE)
             => ~Called(j, "discriminator.train")
C9_Witness ==
    /\ pc = "done"
    /\ raised = "none"
    /\ \E j \in 1..Len(events) : Called(j, "train_generator")

====
